---- MODULE Spec2Model ----
(***************************************************************************)
(* A model of nype's validated string newtypes (src/src/string.rs):        *)
(*   - define_string_type!: the wrapper, its constructors (new, new_ref,   *)
(*     new_box, from_str), its accessors and the two transpose casts;      *)
(*   - the @check rules and the lazily built PATTERN of a regex check;     *)
(*   - declare_new_string!: the single-pattern, single-error flavour.      *)
(*                                                                         *)
(* A text is a sequence of characters; each character has a UTF-8 width,   *)
(* and str::len counts bytes.  A handle is a fat pointer (address, byte    *)
(* length) together with its static type.                                  *)
(***************************************************************************)
EXTENDS Integers, Sequences, FiniteSets, TLC

\* ------------------------------------------------------------------ bounds
MaxLen == 2        \* longest input text, in characters
MaxChecks == 2     \* longest declared check list
MaxParam == 2      \* largest length parameter l of min_len / max_len / len
MaxAddr == 2       \* number of distinct buffer addresses
MaxThreads == 2    \* concurrent callers

\* ------------------------------------------------------------------ texts
\* " " is ASCII whitespace, "a" a lowercase hex digit, "U+00A0" a two-byte
\* character that is neither (NO-BREAK SPACE: whitespace, but not ASCII).
Alphabet == {" ", "a", "U+00A0"}

Texts == UNION {[1..n -> Alphabet] : n \in 0..MaxLen}

utf8_len(c) == IF c = "U+00A0" THEN 2 ELSE 1

\* str::len: the length in bytes
RECURSIVE len(_)
len(s) == IF s = <<>> THEN 0 ELSE utf8_len(Head(s)) + len(Tail(s))

is_empty(s) == len(s) = 0

is_ascii_whitespace(c) == c = " "

RECURSIVE trim_ascii_start(_)
trim_ascii_start(s) ==
  IF s # <<>> /\ is_ascii_whitespace(Head(s)) THEN trim_ascii_start(Tail(s)) ELSE s

RECURSIVE trim_ascii_end(_)
trim_ascii_end(s) ==
  IF s # <<>> /\ is_ascii_whitespace(s[Len(s)])
  THEN trim_ascii_end(SubSeq(s, 1, Len(s) - 1))
  ELSE s

\* str::trim_ascii
trim_ascii(s) == trim_ascii_end(trim_ascii_start(s))

\* the longest prefix of s that fits in n bytes: what a fat pointer
\* (address of s, n) designates
RECURSIVE prefix_bytes(_, _)
prefix_bytes(s, n) ==
  IF s = <<>> \/ utf8_len(Head(s)) > n THEN <<>>
  ELSE <<Head(s)>> \o prefix_bytes(Tail(s), n - utf8_len(Head(s)))

\* ------------------------------------------------------------ the patterns
is_hex(c) == c = "a"

\* the patterns a definition may carry; "(" does not compile
Patterns == {"^[0-9a-f]{2}$", "[0-9a-f]", "("}

NoMatcher == "unbuilt"

\* regex::Regex::new(pat): the matcher, or the error of a malformed pattern
Regex_new(pat) ==
  IF pat = "(" THEN [ok |-> FALSE, re |-> NoMatcher] ELSE [ok |-> TRUE, re |-> pat]

\* Regex::is_match(re, s): an unanchored search for the pattern in s
is_match(re, s) ==
  CASE re = "^[0-9a-f]{2}$" -> Len(s) = 2 /\ \A i \in 1..Len(s) : is_hex(s[i])
    [] re = "[0-9a-f]" -> \E i \in 1..Len(s) : is_hex(s[i])
    [] OTHER -> FALSE

\* ------------------------------------------------------ type specification
Ck(kind, l, pattern) == [kind |-> kind, l |-> l, pattern |-> pattern]

ConstCatalog ==
  {Ck("non_empty", 0, ""), Ck("ascii_trimmed", 0, "")}
    \cup {Ck(k, l, "") : k \in {"min_len", "max_len", "len"}, l \in 1..MaxParam}

Catalog == ConstCatalog \cup {Ck("regex", 0, p) : p \in Patterns}

SeqsUpTo(S, n) == UNION {[1..k -> S] : k \in 0..n}

\* the three @impl_new rules: no error enum, #[error(const)], #[error(dyn)];
\* a const fn cannot run a regex check
Types ==
  {[flavor |-> "none", checks |-> <<>>]}
    \cup {[flavor |-> "const", checks |-> cs] : cs \in SeqsUpTo(ConstCatalog, MaxChecks)}
    \cup {[flavor |-> "dyn", checks |-> cs] : cs \in SeqsUpTo(Catalog, MaxChecks) \ SeqsUpTo(ConstCatalog, MaxChecks)}

\* ---------------------------------------------------------------- results
Ok == [kind |-> "Ok", tag |-> 0]
Err(i) == [kind |-> "Err", tag |-> i]
Panic(i) == [kind |-> "Panic", tag |-> i]
NoRes == [kind |-> "none", tag |-> 0]

\* ------------------------------------------------------- the @check rules
\* TRUE when the rule returns Err($err_name::$ck_name)
check_non_empty(input) == is_empty(input)
check_ascii_trimmed(input) == len(trim_ascii(input)) # len(input)

\* a minimum counted in characters instead of bytes
check_min_len_chars(l, input) == Len(input) < l

check_min_len(l, input) == len(input) < l
check_max_len(l, input) == len(input) > l
check_len(l, input) == len(input) # l

check_fails(ck, input) ==
  CASE ck.kind = "non_empty" -> check_non_empty(input)
    [] ck.kind = "ascii_trimmed" -> check_ascii_trimmed(input)
    [] ck.kind = "min_len" -> check_min_len(ck.l, input)
    [] ck.kind = "max_len" -> check_max_len(ck.l, input)
    [] ck.kind = "len" -> check_len(ck.l, input)
    [] OTHER -> FALSE

\* ------------------------------------------------ the lazily built PATTERN
\* a static LazyLock<Regex> (once_cell Lazy in declare_new_string)
Uninit == [state |-> "uninit", value |-> NoMatcher]

\* a closure that swallows the error of Regex::new instead of panicking
PATTERN_init_lenient(pat) == [state |-> "done", value |-> Regex_new(pat).re]

\* the closure of the LazyLock: Regex::new(pat), panicking on Err
PATTERN_init(pat) ==
  LET r == Regex_new(pat)
  IN IF r.ok THEN [state |-> "done", value |-> r.re]
     ELSE [state |-> "poisoned", value |-> NoMatcher]

\* a cell without mutual exclusion: a caller that finds the closure running
\* runs it too
LazyMayInit_racy(cell) == cell.state \in {"uninit", "running"}

\* a caller runs the closure only when it finds the cell uninitialised
LazyMayInit(cell) == cell.state = "uninit"

\* a caller gets the value only once the cell is initialised
LazyReady(cell) == cell.state = "done"

\* LazyLock::force by a single caller, start to end
LazyLock_force(cell, pat) == IF LazyMayInit(cell) THEN PATTERN_init(pat) ELSE cell

\* checks evaluated without the early return: the last failure wins
RECURSIVE run_checks_last(_, _, _, _)
run_checks_last(checks, input, i, st) ==
  IF i > Len(checks) THEN [res |-> Ok, lazy |-> st.lazy, builds |-> st.builds, evald |-> i - 1]
  ELSE LET rest == run_checks_last(checks, input, i + 1, st)
           ck == checks[i]
           cell == LazyLock_force(st.lazy[i], ck.pattern)
       IN IF rest.res.kind # "Ok" THEN rest
          ELSE IF ck.kind # "regex"
               THEN IF check_fails(ck, input) THEN [rest EXCEPT !.res = Err(i)] ELSE rest
               ELSE IF ~LazyReady(cell) THEN [rest EXCEPT !.res = Panic(i), !.lazy[i] = cell]
                    ELSE IF ~is_match(cell.value, input)
                         THEN [rest EXCEPT !.res = Err(i), !.lazy[i] = cell]
                         ELSE [rest EXCEPT !.lazy[i] = cell]

\* every PATTERN of the list forced, whether or not its check is reached
ForceAll(checks, st) ==
  [lazy |-> [j \in DOMAIN st.lazy |->
               IF checks[j].kind = "regex"
               THEN LazyLock_force(st.lazy[j], checks[j].pattern) ELSE st.lazy[j]],
   builds |-> [j \in DOMAIN st.builds |->
                 IF checks[j].kind = "regex" /\ LazyMayInit(st.lazy[j])
                 THEN st.builds[j] + 1 ELSE st.builds[j]]]

\* checks evaluated in order with the early return, but with the matchers
\* built on entry instead of on first use
RECURSIVE run_checks_eager(_, _, _, _)
run_checks_eager(checks, input, i, st) ==
  LET f == ForceAll(checks, st)
  IN IF i > Len(checks) THEN [res |-> Ok, lazy |-> f.lazy, builds |-> f.builds, evald |-> i - 1]
     ELSE LET ck == checks[i]
          IN IF ck.kind = "regex"
             THEN IF ~LazyReady(f.lazy[i])
                  THEN [res |-> Panic(i), lazy |-> f.lazy, builds |-> f.builds, evald |-> i]
                  ELSE IF ~is_match(f.lazy[i].value, input)
                       THEN [res |-> Err(i), lazy |-> f.lazy, builds |-> f.builds, evald |-> i]
                       ELSE run_checks_eager(checks, input, i + 1, f)
             ELSE IF check_fails(ck, input)
                  THEN [res |-> Err(i), lazy |-> f.lazy, builds |-> f.builds, evald |-> i]
                  ELSE run_checks_eager(checks, input, i + 1, f)

\* --------------------------------------------------------------- new_ref
\* the expanded $( @check ... )* of new_ref from check i on; st carries the
\* PATTERN cells and the number of times each was built
RECURSIVE run_checks(_, _, _, _)
run_checks(checks, input, i, st) ==
  IF i > Len(checks) THEN [res |-> Ok, lazy |-> st.lazy, builds |-> st.builds, evald |-> i - 1]
  ELSE LET ck == checks[i]
       IN IF ck.kind = "regex"
          THEN LET cell == LazyLock_force(st.lazy[i], ck.pattern)
                   st2 == [lazy |-> [st.lazy EXCEPT ![i] = cell],
                           builds |-> IF LazyMayInit(st.lazy[i])
                                      THEN [st.builds EXCEPT ![i] = @ + 1]
                                      ELSE st.builds]
               IN IF ~LazyReady(cell)
                  THEN [res |-> Panic(i), lazy |-> st2.lazy, builds |-> st2.builds, evald |-> i]
                  ELSE IF ~is_match(cell.value, input)
                       THEN [res |-> Err(i), lazy |-> st2.lazy, builds |-> st2.builds, evald |-> i]
                       ELSE run_checks(checks, input, i + 1, st2)
          ELSE IF check_fails(ck, input)
               THEN [res |-> Err(i), lazy |-> st.lazy, builds |-> st.builds, evald |-> i]
               ELSE run_checks(checks, input, i + 1, st)

new_ref(checks, input, st) == run_checks(checks, input, 1, st)

\* ---------------------------------------------------------------- state
VARIABLES
  ty,      \* the type definition: which @impl_new rule, and its checks
  mem,     \* the buffers: address -> [live, heap, bytes]
  inp,     \* the text the caller holds (a handle, or None)
  w,       \* the wrapper-typed handle the caller holds (or None)
  v,       \* a view borrowed from w (or None)
  src,     \* the text the caller started from
  last,    \* the last operation: its name, argument, input text and result
  lazy,    \* the PATTERN cell of each regex check
  builds,  \* how many times each PATTERN closure was entered
  thr      \* the concurrent callers

vars == <<ty, mem, inp, w, v, src, last, lazy, builds, thr>>

Addrs == 1..MaxAddr
Threads == 1..MaxThreads

H(kind, addr, n) == [kind |-> kind, addr |-> addr, len |-> n]
None == H("none", 0, 0)

Free == [live |-> FALSE, heap |-> FALSE, bytes |-> <<>>]
Buf(heap, t) == [live |-> TRUE, heap |-> heap, bytes |-> t]

\* the allocator hands out the lowest free address
alloc(m) == CHOOSE a \in Addrs : ~m[a].live /\ \A b \in 1..(a - 1) : m[b].live

\* the text a handle designates
Deref(m, h) == prefix_bytes(m[h.addr].bytes, h.len)

OwningKinds == {"String", "Box<str>", "W<String>", "W<Box<str>>", "Box<W<str>>"}

\* $struct_name<TyInner> for an inner kind, and back
WrapKind(k) ==
  CASE k = "&str" -> "W<&str>" [] k = "String" -> "W<String>" [] k = "Box<str>" -> "W<Box<str>>"
InnerKind(k) ==
  CASE k = "W<&str>" -> "&str" [] k = "W<String>" -> "String" [] k = "W<Box<str>>" -> "Box<str>"

\* the tuple constructor $struct_name(inner): private to the defining module
Wrap(h) == H(WrapKind(h.kind), h.addr, h.len)

\* a drop that leaks the buffer
drop_leak(m, h) == m

\* dropping a value: an owning handle frees its buffer
drop(m, h) == IF h.kind \in OwningKinds THEN [m EXCEPT ![h.addr] = Free] ELSE m

\* a copy that normalises the text on the way
String_from_trimmed(m, a, s) ==
  [mem |-> [m EXCEPT ![a] = Buf(TRUE, trim_ascii(s))], h |-> H("String", a, len(trim_ascii(s)))]

\* String::from(s): a new buffer at a, holding a copy of the bytes of s
String_from(m, a, s) == [mem |-> [m EXCEPT ![a] = Buf(TRUE, s)], h |-> H("String", a, len(s))]

\* ------------------------------------------------------------ accessors
as_str(h) == H("&str", h.addr, h.len)

into_inner(h) == H(InnerKind(h.kind), h.addr, h.len)

as_inner(h) ==
  CASE h.kind = "W<&str>" -> H("&&str", h.addr, h.len)
    [] h.kind = "W<String>" -> H("&String", h.addr, h.len)
    [] h.kind = "W<Box<str>>" -> H("&Box<str>", h.addr, h.len)
    [] OTHER -> H("&str", h.addr, h.len)

\* ------------------------------------------------------------ the casts
\* a cast that loses the last byte of the fat pointer's length
transpose_short(m, h) ==
  [mem |-> m, h |-> H("&W<str>", h.addr, IF h.len > 0 THEN h.len - 1 ELSE 0)]

\* $struct_name<&str>::transpose: from_ref, the pointer cast, &*wrapped_ptr
transpose(m, h) == [mem |-> m, h |-> H("&W<str>", h.addr, h.len)]

\* a cast that rebuilds the box from a copy of the bytes and drops the original
transpose_box_copy(m, h) ==
  [mem |-> [m EXCEPT ![alloc(m)] = m[h.addr], ![h.addr] = Free],
   h |-> H("Box<W<str>>", alloc(m), h.len)]

\* $struct_name<Box<str>>::transpose: Box::into_raw, the cast, Box::from_raw
transpose_box(m, h) == [mem |-> m, h |-> H("Box<W<str>>", h.addr, h.len)]

as_view(m, h) == transpose(m, Wrap(as_str(h)))

\* the reverse casts: $struct_name(r.as_str()) inside the defining module, and
\* the boxed counterpart
to_wrapper(m, h) == [mem |-> m, h |-> Wrap(as_str(h))]
to_wrapper_box(m, h) == [mem |-> m, h |-> H("W<Box<str>>", h.addr, h.len)]

\* --------------------------------------------------------- constructors
Out(res, wh, held, m, r) ==
  [res |-> res, w |-> wh, inp |-> held, mem |-> m,
   lazy |-> r.lazy, builds |-> r.builds, evald |-> r.evald]

\* what the caller still holds of an argument passed by value
Kept(h) == IF h.kind = "&str" THEN h ELSE None

\* an unchecked constructor that refuses the empty text
new_unchecked_nonempty(m, h, st) ==
  IF is_empty(Deref(m, h))
  THEN Out(Err(1), None, Kept(h), drop(m, h), [lazy |-> st.lazy, builds |-> st.builds, evald |-> 1])
  ELSE Out([kind |-> "Self", tag |-> 0], Wrap(h), Kept(h), m,
           [lazy |-> st.lazy, builds |-> st.builds, evald |-> 0])

\* @impl_new without an error enum: Self(inner)
new_unchecked(m, h, st) ==
  Out([kind |-> "Self", tag |-> 0], Wrap(h), Kept(h), m,
      [lazy |-> st.lazy, builds |-> st.builds, evald |-> 0])

\* a constructor that wraps its input without looking at the outcome of new_ref
new_checked_skip(checks, m, h, st) ==
  Out(Ok, Wrap(h), Kept(h), m, new_ref(checks, Deref(m, h), st))

\* @impl_new with checks: match new_ref(&*input) { Ok(_) => Ok(Self(input)), Err(e) => Err(e) }
new_checked(checks, m, h, st) ==
  LET r == new_ref(checks, Deref(m, h), st)
  IN IF r.res.kind = "Ok" THEN Out(Ok, Wrap(h), Kept(h), m, r)
     ELSE Out(r.res, None, Kept(h), drop(m, h), r)

new(t, m, h, st) ==
  IF t.flavor = "none" THEN new_unchecked(m, h, st) ELSE new_checked(t.checks, m, h, st)

\* new_ref as the caller sees it: Ok(Self(input).transpose())
new_ref_call(checks, m, h, st) ==
  LET r == new_ref(checks, Deref(m, h), st)
  IN IF r.res.kind = "Ok" THEN Out(Ok, transpose(m, Wrap(h)).h, h, transpose(m, Wrap(h)).mem, r)
     ELSE Out(r.res, None, h, m, r)

\* new_box: match new_ref(&*input) { Ok(_) => Ok(Self(input).transpose()), Err(e) => Err(e) }
new_box(checks, m, h, st) ==
  LET r == new_ref(checks, Deref(m, h), st)
  IN IF r.res.kind = "Ok"
     THEN Out(Ok, transpose_box(m, Wrap(h)).h, None, transpose_box(m, Wrap(h)).mem, r)
     ELSE Out(r.res, None, None, drop(m, h), r)

\* FromStr::from_str(s): Self::new(<$inner_ty>::from(s)), with the copy at a
from_str(t, m, h, a, st) ==
  LET c == String_from(m, a, Deref(m, h))
      o == new(t, c.mem, c.h, st)
  IN IF t.flavor = "none" THEN [o EXCEPT !.res = Ok, !.inp = h] ELSE [o EXCEPT !.inp = h]

\* ---------------------------------------------------------------- Init
NoThread == [pc |-> "idle", i |-> 0, input |-> <<>>, res |-> NoRes]

Cells(t) == [i \in 1..Len(t.checks) |-> Uninit]
Zeros(t) == [i \in 1..Len(t.checks) |-> 0]

Blank ==
  /\ mem = [a \in Addrs |-> Free]
  /\ inp = None /\ w = None /\ v = None

Defined ==
  [op |-> "define", arg |-> None, text |-> <<>>, res |-> NoRes, evald |-> 0,
   built |-> {}, delta |-> {}, pop |-> "none", parg |-> None]

\* the macro expands: the statics exist, no closure has run
Init ==
  /\ ty \in Types
  /\ Blank
  /\ src = <<>>
  /\ last = Defined
  /\ lazy = Cells(ty)
  /\ builds = Zeros(ty)
  /\ thr = [t \in Threads |-> NoThread]

St == [lazy |-> lazy, builds |-> builds]

\* a new scope: nothing is bound yet
Fresh == last.op \in {"define", "drop"}

\* the cast just before this operation, if any
PrevOp == IF last.op \in {"transpose", "transpose_box"} THEN last.op ELSE "none"
PrevArg == IF last.op \in {"transpose", "transpose_box"} THEN last.arg ELSE None

\* the record of an operation: what it was applied to, what it returned, how
\* many checks it evaluated, which PATTERN closures it ran, which buffers it
\* allocated, freed or wrote, and the cast before it
Log(op, arg, text, res, evald, pop, parg) ==
  last' = [op |-> op, arg |-> arg, text |-> text, res |-> res, evald |-> evald,
           built |-> {i \in DOMAIN builds : builds'[i] # builds[i]},
           delta |-> {a \in Addrs : mem'[a] # mem[a]},
           pop |-> pop, parg |-> parg]

\* ------------------------------------------------------------- actions
\* the caller names a string literal (or borrows text owned elsewhere)
Literal ==
  /\ Fresh
  /\ \E t \in Texts :
       /\ mem' = [mem EXCEPT ![alloc(mem)] = Buf(FALSE, t)]
       /\ inp' = H("&str", alloc(mem), len(t))
       /\ src' = t
       /\ UNCHANGED <<ty, w, v, lazy, builds, thr>>
       /\ Log("literal", None, t, NoRes, 0, "none", None)

\* the caller builds an owned String or Box<str>
Owned ==
  /\ Fresh
  /\ \E t \in Texts, k \in {"String", "Box<str>"} :
       /\ mem' = [mem EXCEPT ![alloc(mem)] = Buf(TRUE, t)]
       /\ inp' = H(k, alloc(mem), len(t))
       /\ src' = t
       /\ UNCHANGED <<ty, w, v, lazy, builds, thr>>
       /\ Log("owned", None, t, NoRes, 0, "none", None)

Apply(op, o) ==
  /\ mem' = o.mem
  /\ inp' = o.inp
  /\ w' = o.w
  /\ v' = None
  /\ lazy' = o.lazy
  /\ builds' = o.builds
  /\ UNCHANGED <<ty, src, thr>>
  /\ Log(op, inp, Deref(mem, inp), o.res, o.evald, PrevOp, PrevArg)

New ==
  /\ ty.flavor \in {"none", "const", "dyn"}
  /\ inp.kind \in {"&str", "String", "Box<str>"}
  /\ w = None
  /\ Apply("new", new(ty, mem, inp, St))

NewRef ==
  /\ ty.flavor \in {"const", "dyn"}
  /\ inp.kind = "&str"
  /\ w = None
  /\ Apply("new_ref", new_ref_call(ty.checks, mem, inp, St))

NewBox ==
  /\ ty.flavor = "const"
  /\ inp.kind = "Box<str>"
  /\ w = None
  /\ Apply("new_box", new_box(ty.checks, mem, inp, St))

FromStr ==
  /\ ty.flavor \in {"none", "const", "dyn"}
  /\ inp.kind = "&str"
  /\ w = None
  /\ Apply("from_str", from_str(ty, mem, inp, alloc(mem), St))

View(op, h) ==
  /\ v' = h
  /\ UNCHANGED <<ty, mem, inp, w, src, lazy, builds, thr>>
  /\ Log(op, w, Deref(mem, w), NoRes, 0, PrevOp, PrevArg)

IsWrapper(h) == h.kind \in {"W<&str>", "W<String>", "W<Box<str>>", "&W<str>", "Box<W<str>>"}

AsStr == IsWrapper(w) /\ View("as_str", as_str(w))

AsView == IsWrapper(w) /\ View("as_view", as_view(mem, w).h)

AsInner == IsWrapper(w) /\ View("as_inner", as_inner(w))

IntoInner ==
  /\ w.kind \in {"W<&str>", "W<String>", "W<Box<str>>"}
  /\ inp' = into_inner(w)
  /\ w' = None
  /\ v' = None
  /\ UNCHANGED <<ty, mem, src, lazy, builds, thr>>
  /\ Log("into_inner", w, Deref(mem, w), NoRes, 0, PrevOp, PrevArg)

Cast(op, c) ==
  /\ mem' = c.mem
  /\ w' = c.h
  /\ v' = None
  /\ UNCHANGED <<ty, inp, src, lazy, builds, thr>>
  /\ Log(op, w, Deref(mem, w), NoRes, 0, PrevOp, PrevArg)

Transpose == w.kind = "W<&str>" /\ Cast("transpose", transpose(mem, w))

TransposeBox == w.kind = "W<Box<str>>" /\ Cast("transpose_box", transpose_box(mem, w))

ToWrapper == w.kind = "&W<str>" /\ Cast("to_wrapper", to_wrapper(mem, w))

ToWrapperBox == w.kind = "Box<W<str>>" /\ Cast("to_wrapper_box", to_wrapper_box(mem, w))

\* every binding goes out of scope
Drop ==
  /\ ~Fresh
  /\ mem' = [a \in Addrs |-> Free]
  /\ inp' = None /\ w' = None /\ v' = None
  /\ src' = <<>>
  /\ UNCHANGED <<ty, lazy, builds, thr>>
  /\ Log("drop", None, <<>>, NoRes, 0, "none", None)

Next ==
  \/ Literal \/ Owned
  \/ New \/ NewRef \/ NewBox \/ FromStr
  \/ AsStr \/ AsView \/ AsInner \/ IntoInner
  \/ Transpose \/ TransposeBox \/ ToWrapper \/ ToWrapperBox
  \/ Drop

Spec == Init /\ [][Next]_vars

\* ------------------------------------------------- concurrent validation
\* The callers of new_ref on a type with a regex check (or of from_str on a
\* declare_new_string type), interleaved at the steps of the PATTERN cell.

\* the inputs of tests/string.rs, at the model's scale
ConcInputs == {<<>>, <<" ", "a">>, <<"a", "a">>, <<"U+00A0", "a">>}

NsTypes ==
  {[flavor |-> "new_string", name |-> n, checks |-> <<Ck("regex", 0, p)>>] :
     n \in {"Username", "HexColor"}, p \in Patterns}

ConcTypes ==
  {[flavor |-> "dyn", checks |-> <<Ck("regex", 0, p)>>] : p \in Patterns}
    \cup {[flavor |-> "dyn", checks |-> <<Ck("non_empty", 0, ""), Ck("regex", 0, p)>>] :
            p \in Patterns}
    \cup {[flavor |-> "dyn", checks |-> <<Ck("regex", 0, p), Ck("regex", 0, q)>>] :
            p \in Patterns, q \in Patterns}
    \cup {t \in NsTypes : t.name = "Username"}

\* the checks from i on that need no PATTERN: stop at the first failure, at the
\* first regex check, or at the end
RECURSIVE advance(_, _, _)
advance(checks, input, i) ==
  IF i > Len(checks) THEN [pc |-> "done", i |-> i - 1, input |-> input, res |-> Ok]
  ELSE IF checks[i].kind = "regex"
       THEN [pc |-> "force", i |-> i, input |-> input, res |-> NoRes]
       ELSE IF check_fails(checks[i], input)
            THEN [pc |-> "done", i |-> i, input |-> input, res |-> Err(i)]
            ELSE advance(checks, input, i + 1)

InitConc ==
  /\ ty \in ConcTypes
  /\ Blank
  /\ src = <<>>
  /\ last = Defined
  /\ lazy = Cells(ty)
  /\ builds = Zeros(ty)
  /\ thr = [t \in Threads |-> NoThread]

\* a thread enters new_ref(input)
Call(t) ==
  /\ thr[t].pc = "idle"
  /\ \E input \in ConcInputs : thr' = [thr EXCEPT ![t] = advance(ty.checks, input, 1)]
  /\ UNCHANGED <<ty, mem, inp, w, v, src, last, lazy, builds>>

\* PATTERN is dereferenced: the first caller takes the closure, a caller that
\* finds it running waits, a caller that finds it poisoned panics
Force(t) ==
  /\ thr[t].pc = "force"
  /\ LET i == thr[t].i
     IN \/ /\ LazyMayInit(lazy[i])
           /\ lazy' = [lazy EXCEPT ![i].state = "running"]
           /\ builds' = [builds EXCEPT ![i] = @ + 1]
           /\ thr' = [thr EXCEPT ![t].pc = "build"]
        \/ /\ ~LazyMayInit(lazy[i])
           /\ LazyReady(lazy[i])
           /\ thr' = [thr EXCEPT ![t].pc = "match"]
           /\ UNCHANGED <<lazy, builds>>
        \/ /\ ~LazyMayInit(lazy[i])
           /\ lazy[i].state = "poisoned"
           /\ thr' = [thr EXCEPT ![t].pc = "done", ![t].res = Panic(i)]
           /\ UNCHANGED <<lazy, builds>>
  /\ UNCHANGED <<ty, mem, inp, w, v, src, last>>

\* the closure runs to its end: the matcher is stored, or the panic poisons
Build(t) ==
  /\ thr[t].pc = "build"
  /\ LET i == thr[t].i
         cell == PATTERN_init(ty.checks[i].pattern)
     IN /\ lazy' = [lazy EXCEPT ![i] = cell]
        /\ thr' = IF LazyReady(cell) THEN [thr EXCEPT ![t].pc = "match"]
                  ELSE [thr EXCEPT ![t].pc = "done", ![t].res = Panic(i)]
  /\ UNCHANGED <<ty, mem, inp, w, v, src, last, builds>>

\* PATTERN.is_match(input), then the checks that follow
Match(t) ==
  /\ thr[t].pc = "match"
  /\ LET i == thr[t].i
     IN thr' = IF ~is_match(lazy[i].value, thr[t].input)
               THEN [thr EXCEPT ![t].pc = "done", ![t].res = Err(i)]
               ELSE [thr EXCEPT ![t] = advance(ty.checks, thr[t].input, i + 1)]
  /\ UNCHANGED <<ty, mem, inp, w, v, src, last, lazy, builds>>

\* the call returns (or unwinds) and the thread is free to call again
Return(t) ==
  /\ thr[t].pc = "done"
  /\ thr' = [thr EXCEPT ![t] = NoThread]
  /\ UNCHANGED <<ty, mem, inp, w, v, src, last, lazy, builds>>

NextConc == \E t \in Threads : Call(t) \/ Force(t) \/ Build(t) \/ Match(t) \/ Return(t)

SpecConc == InitConc /\ [][NextConc]_vars

\* ------------------------------------------------------ declare_new_string
NoErr == [type |-> "none", msg |-> <<>>]

\* Display for $err_name: concat!("Invalid ", stringify!($struct_name))
Display(t) == <<"Invalid ", t.name>>

NsRes(kind, err) == [kind |-> kind, tag |-> IF kind = "Ok" THEN 0 ELSE 1, err |-> err]

NsOut(res, wh, m, cell, st) ==
  [res |-> res, w |-> wh, inp |-> None, mem |-> m,
   lazy |-> [st.lazy EXCEPT ![1] = cell],
   builds |-> IF LazyMayInit(st.lazy[1]) THEN [st.builds EXCEPT ![1] = @ + 1] ELSE st.builds,
   evald |-> 1]

\* FromStr: if Self::pattern().is_match(&s) { Ok(Self(s.to_string())) } else { Err($err_name(())) }
ns_from_str(t, m, s, st) ==
  LET cell == LazyLock_force(st.lazy[1], t.checks[1].pattern)
      c == String_from(m, alloc(m), s)
  IN IF ~LazyReady(cell) THEN NsOut(NsRes("Panic", NoErr), None, m, cell, st)
     ELSE IF is_match(cell.value, s)
          THEN NsOut(NsRes("Ok", NoErr), H("NS", c.h.addr, c.h.len), c.mem, cell, st)
          ELSE NsOut(NsRes("Err", [type |-> "$err_name", msg |-> Display(t)]), None, m, cell, st)

\* a conversion that skips the pattern
ns_try_from_unchecked(t, m, s, st) ==
  [res |-> NsRes("Ok", NoErr), w |-> H("NS", alloc(m), len(s)), inp |-> None,
   mem |-> String_from(m, alloc(m), s).mem, lazy |-> st.lazy, builds |-> st.builds,
   evald |-> 0]

\* TryFrom<&str>: s.parse()
ns_try_from(t, m, s, st) == ns_from_str(t, m, s, st)

\* Visitor::visit_str: value.parse().map_err(E::custom)
ns_visit_str(t, m, s, st) ==
  LET o == ns_from_str(t, m, s, st)
  IN IF o.res.kind = "Err"
     THEN [o EXCEPT !.res.err = [type |-> "serde::de::Error", msg |-> o.res.err.msg]]
     ELSE o

\* the column values a driver may hand to decode: a text, or something that
\* <&str as Decode>::decode rejects
DbValues == {[text |-> TRUE, s |-> t] : t \in Texts} \cup {[text |-> FALSE, s |-> <<>>]}

\* Decode::decode: let value: &str = <&str as Decode>::decode(value)?; Ok(value.parse()?)
ns_decode(t, m, value, st) ==
  IF ~value.text
  THEN [res |-> NsRes("Err", [type |-> "sqlx::error::BoxDynError", msg |-> <<"decode">>]),
        w |-> None, inp |-> None, mem |-> m, lazy |-> st.lazy, builds |-> st.builds,
        evald |-> 0]
  ELSE LET o == ns_from_str(t, m, value.s, st)
       IN IF o.res.kind = "Err"
          THEN [o EXCEPT !.res.err = [type |-> "Box<dyn Error>", msg |-> o.res.err.msg]]
          ELSE o

InitNs ==
  /\ ty \in NsTypes
  /\ Blank
  /\ src = <<>>
  /\ last = Defined
  /\ lazy = Cells(ty)
  /\ builds = Zeros(ty)
  /\ thr = [t \in Threads |-> NoThread]

NsApply(op, arg, text, o) ==
  /\ mem' = o.mem
  /\ inp' = None
  /\ w' = o.w
  /\ v' = None
  /\ lazy' = o.lazy
  /\ builds' = o.builds
  /\ src' = text
  /\ UNCHANGED <<ty, thr>>
  /\ Log(op, arg, text, o.res, o.evald, "none", None)

NsFromStr == Fresh /\ \E s \in Texts : NsApply("from_str", H("&str", 0, 0), s, ns_from_str(ty, mem, s, St))

NsTryFrom == Fresh /\ \E s \in Texts : NsApply("try_from", H("&str", 0, 0), s, ns_try_from(ty, mem, s, St))

NsVisitStr == Fresh /\ \E s \in Texts : NsApply("visit_str", H("&str", 0, 0), s, ns_visit_str(ty, mem, s, St))

NsDecode ==
  /\ Fresh
  /\ \E value \in DbValues :
       NsApply("decode", H(IF value.text THEN "&str" ELSE "not text", 0, 0), value.s,
               ns_decode(ty, mem, value, St))

\* $struct_name::as_str: &self.0
NsAsStr ==
  /\ w.kind = "NS"
  /\ v' = as_str(w)
  /\ UNCHANGED <<ty, mem, inp, w, src, lazy, builds, thr>>
  /\ Log("as_str", w, Deref(mem, w), NoRes, 0, "none", None)

NextNs == NsFromStr \/ NsTryFrom \/ NsVisitStr \/ NsDecode \/ NsAsStr \/ Drop

SpecNs == InitNs /\ [][NextNs]_vars

\* ------------------------------------------------------------ comparisons
\* Two values of one wrapper type, built independently of one another, and
\* compared with the derived PartialEq (tests/string.rs, string_const_checked).
\* Here w is the value being built, v the value built before it, and src the
\* list of what each was built from: the text, the kind of the input and the
\* constructor.

\* a comparison of the fat pointers instead of the text they designate
eq_ptr(m, a, b) == a.addr = b.addr /\ a.len = b.len

\* #[derive(PartialEq)] on $struct_name<TyInner>: self.0 == other.0, which for
\* &str, String, Box<str> and str alike compares the bytes
eq(m, a, b) == Deref(m, a) = Deref(m, b)

Bool(b) == [kind |-> IF b THEN "true" ELSE "false", tag |-> 0]

\* the derive does not depend on the checks: the types compared are the one
\* without checks and those with a single check, of every kind
EqTypes == {t \in Types : Len(t.checks) <= 1}

InitEq ==
  /\ ty \in EqTypes
  /\ Blank
  /\ src = <<>>
  /\ last = Defined
  /\ lazy = Cells(ty)
  /\ builds = Zeros(ty)
  /\ thr = [t \in Threads |-> NoThread]

\* the caller names a literal, or builds a String or a Box<str>, for the
\* next value
Bind ==
  /\ w = None
  /\ Len(src) = (IF v = None THEN 0 ELSE 1)
  /\ \E t \in Texts, k \in {"&str", "String", "Box<str>"} :
       /\ mem' = [mem EXCEPT ![alloc(mem)] = Buf(k # "&str", t)]
       /\ inp' = H(k, alloc(mem), len(t))
       /\ src' = Append(src, [text |-> t, kind |-> k, ctor |-> "none"])
       /\ UNCHANGED <<ty, w, v, lazy, builds, thr>>
       /\ Log("bind", None, t, NoRes, 0, "none", None)

EqApply(op, o) ==
  /\ mem' = o.mem
  /\ inp' = None
  /\ w' = o.w
  /\ lazy' = o.lazy
  /\ builds' = o.builds
  /\ src' = [src EXCEPT ![Len(src)].ctor = op]
  /\ UNCHANGED <<ty, v, thr>>
  /\ Log(op, inp, Deref(mem, inp), o.res, o.evald, "none", None)

EqNew ==
  /\ inp.kind \in {"&str", "String", "Box<str>"}
  /\ w = None
  /\ EqApply("new", new(ty, mem, inp, St))

EqNewRef ==
  /\ ty.flavor \in {"const", "dyn"}
  /\ inp.kind = "&str"
  /\ w = None
  /\ EqApply("new_ref", new_ref_call(ty.checks, mem, inp, St))

EqNewBox ==
  /\ ty.flavor = "const"
  /\ inp.kind = "Box<str>"
  /\ w = None
  /\ EqApply("new_box", new_box(ty.checks, mem, inp, St))

\* the value is replaced by a view of it or by its cast; the owner of the
\* buffer stays in scope
EqView(op, h) ==
  /\ w' = h
  /\ UNCHANGED <<ty, mem, inp, v, src, lazy, builds, thr>>
  /\ Log(op, w, Deref(mem, w), NoRes, 0, "none", None)

EqAsView ==
  /\ w.kind \in {"W<&str>", "W<String>", "W<Box<str>>", "Box<W<str>>"}
  /\ EqView("as_view", as_view(mem, w).h)

EqTranspose == w.kind = "W<&str>" /\ EqView("transpose", transpose(mem, w).h)

EqTransposeBox == w.kind = "W<Box<str>>" /\ EqView("transpose_box", transpose_box(mem, w).h)

\* the value is bound, and the caller goes on to build the second one
Hold ==
  /\ IsWrapper(w) /\ v = None
  /\ v' = w
  /\ w' = None
  /\ UNCHANGED <<ty, mem, inp, src, lazy, builds, thr>>
  /\ Log("let", w, Deref(mem, w), NoRes, 0, "none", None)

\* v == w, for two values of the same type
Compare ==
  /\ IsWrapper(v) /\ IsWrapper(w)
  /\ v.kind = w.kind
  /\ last.op # "eq"
  /\ UNCHANGED <<ty, mem, inp, w, v, src, lazy, builds, thr>>
  /\ Log("eq", v, Deref(mem, v), Bool(eq(mem, v, w)), 0, last.op, w)

NextEq ==
  \/ Bind
  \/ EqNew \/ EqNewRef \/ EqNewBox
  \/ EqAsView \/ EqTranspose \/ EqTransposeBox
  \/ Hold \/ Compare
  \/ Drop

SpecEq == InitEq /\ [][NextEq]_vars

\* ================================================================ claims
CtorOps == {"new", "new_ref", "new_box", "from_str"}

\* check i of the list rejects x (a pattern that does not compile rejects nothing)
Fails(ck, x) ==
  IF ck.kind = "regex"
  THEN Regex_new(ck.pattern).ok /\ ~is_match(Regex_new(ck.pattern).re, x)
  ELSE check_fails(ck, x)

Failing(checks, x) == {i \in 1..Len(checks) : Fails(checks[i], x)}

\* the regex checks whose pattern does not compile
Invalid(checks) ==
  {i \in 1..Len(checks) : checks[i].kind = "regex" /\ ~Regex_new(checks[i].pattern).ok}

Checked == ty.flavor \in {"const", "dyn"}

\* C1: a constructor of a checked type that returns Err returns the tag of
\* the lowest-indexed check its input fails, and it does return Err whenever
\* the input fails a check that no uncompilable pattern precedes.
C1_FirstFailure ==
  (Checked /\ last.op \in CtorOps) =>
    LET F == Failing(ty.checks, last.text)
        B == Invalid(ty.checks)
    IN /\ last.res.kind = "Err" =>
            /\ last.res.tag \in F
            /\ \A j \in F : last.res.tag <= j
       /\ (\E i \in F : \A b \in B : i < b) => last.res.kind = "Err"

\* a constructor has rejected an input that fails two checks, with the first tag
C1_Witness ==
  /\ Checked /\ last.op = "new_box"
  /\ last.res.kind = "Err"
  /\ \E i, j \in Failing(ty.checks, last.text) : i < j /\ last.res.tag = i

\* C2: for a type with at least one check, every wrapper value or wrapper
\* typed view the caller holds has content passing all the checks, and a
\* constructor returns Ok only on an input passing all of them.
C2_WrappersValid ==
  (Checked /\ Len(ty.checks) >= 1) =>
    /\ \A h \in {w, v} :
         IsWrapper(h) =>
           /\ mem[h.addr].live
           /\ Failing(ty.checks, Deref(mem, h)) = {}
           /\ Invalid(ty.checks) = {}
    /\ (last.op \in CtorOps /\ last.res.kind = "Ok") =>
         /\ Failing(ty.checks, last.text) = {}
         /\ Invalid(ty.checks) = {}

\* a view of a cast wrapper of a type with two checks
C2_Witness ==
  /\ Checked /\ Len(ty.checks) = 2
  /\ w.kind = "Box<W<str>>" /\ v.kind = "&W<str>"
  /\ last.op = "as_view"

\* C3 as stated: after new, new_box or from_str returns Err the caller still
\* holds the offending text.
C3_InputKept ==
  (last.op \in {"new", "new_box", "from_str"} /\ last.res.kind = "Err") =>
    /\ inp # None
    /\ mem[inp.addr].live
    /\ Deref(mem, inp) = last.text

\* C3 amended: after an Err the error is the bare tag and no wrapper exists;
\* an input passed as &str (new on a slice, from_str) is still held by the
\* caller, unchanged, while an input passed by value as String or Box<str>
\* (new, new_box) has been moved into the call and dropped with its buffer.
C3_InputKeptIfBorrowed ==
  (last.op \in {"new", "new_box", "from_str"} /\ last.res.kind = "Err") =>
    /\ DOMAIN last.res = {"kind", "tag"}
    /\ w = None
    /\ last.arg.kind = "&str" =>
         /\ inp = last.arg
         /\ mem[inp.addr].live
         /\ Deref(mem, inp) = last.text
         /\ \A a \in Addrs : mem[a].live => a = inp.addr
    /\ last.arg.kind \in {"String", "Box<str>"} =>
         /\ inp = None
         /\ \A a \in Addrs : ~mem[a].live

\* new_box has rejected a boxed text, and from_str can reject a slice
C3_Witness ==
  /\ last.op = "new_box" /\ last.res.kind = "Err"
  /\ last.arg.kind = "Box<str>" /\ last.text # <<>>

Min(S) == CHOOSE m \in S : \A x \in S : m <= x

\* what the same call returns when it runs alone, from a fresh process
SeqResult(t, input) ==
  IF t.flavor = "new_string"
  THEN ns_from_str(t, [a \in Addrs |-> Free], input, [lazy |-> Cells(t), builds |-> Zeros(t)]).res
  ELSE new_ref(t.checks, input, [lazy |-> Cells(t), builds |-> Zeros(t)]).res

\* C4: under every interleaving of concurrent validation calls the closure
\* of each PATTERN is entered at most once, by the caller that first forces
\* the cell; while it runs no other caller gets past the cell; is_match is
\* only ever evaluated on the fully built matcher; and every call ends with
\* the result of the same call run sequentially.
C4_BuiltOnce ==
  /\ \A i \in DOMAIN builds :
       /\ builds[i] <= 1
       /\ builds[i] = 0 <=> lazy[i].state = "uninit"
       /\ lazy[i].state = "running" <=> \E t \in Threads : thr[t].pc = "build" /\ thr[t].i = i
       /\ Cardinality({t \in Threads : thr[t].pc = "build" /\ thr[t].i = i}) <= 1
  /\ \A t \in Threads :
       /\ (thr[t].pc = "force" /\ lazy[thr[t].i].state = "running") => ~ENABLED Force(t)
       /\ thr[t].pc = "match" =>
            /\ builds[thr[t].i] = 1
            /\ lazy[thr[t].i] = [state |-> "done",
                                 value |-> Regex_new(ty.checks[thr[t].i].pattern).re]
            /\ Regex_new(ty.checks[thr[t].i].pattern).ok
       /\ thr[t].pc = "done" =>
            /\ thr[t].res.kind = SeqResult(ty, thr[t].input).kind
            /\ thr[t].res.tag = SeqResult(ty, thr[t].input).tag

\* one caller is running the closure while another is held at the same cell
C4_Witness ==
  \E t, u \in Threads :
    /\ t # u
    /\ thr[t].pc = "build" /\ thr[u].pc = "force" /\ thr[u].i = thr[t].i
    /\ Regex_new(ty.checks[thr[t].i].pattern).ok

\* C5 as stated: on a type whose pattern does not compile no validation call
\* completes with Ok or Err, and no validation call is the one that first
\* detects the bad pattern.
C5_DefinitionTime ==
  (Checked /\ Invalid(ty.checks) # {} /\ last.op \in CtorOps) =>
    /\ last.res.kind \notin {"Ok", "Err"}
    /\ last.built \cap Invalid(ty.checks) = {}

\* C5 amended: defining a type with a pattern that does not compile builds
\* nothing; the pattern is first compiled by the first validation call that
\* reaches its check, and that call panics; the cell is then poisoned and
\* every later call reaching the check panics too.  No call returns Ok, none
\* returns the tag of that check, and a call whose input fails an earlier
\* check returns that check's tag as usual.
C5_LazyPanic ==
  (Checked /\ Invalid(ty.checks) # {}) =>
    LET b == Min(Invalid(ty.checks))
        early == {i \in Failing(ty.checks, last.text) : i < b}
    IN /\ last.op = "define" => \A i \in DOMAIN lazy : lazy[i] = Uninit /\ builds[i] = 0
       /\ lazy[b].state \in {"uninit", "poisoned"}
       /\ builds[b] = 0 <=> lazy[b].state = "uninit"
       /\ builds[b] <= 1
       /\ last.op \in CtorOps =>
            /\ last.res.kind \in {"Err", "Panic"}
            /\ early # {} => last.res = Err(Min(early)) /\ b \notin last.built
            /\ early = {} => last.res = Panic(b) /\ lazy[b].state = "poisoned"
            /\ b \in last.built => last.res = Panic(b)

\* a validation call is the first to compile the bad pattern, and panics
C5_Witness ==
  /\ Checked /\ last.op \in CtorOps
  /\ last.res.kind = "Panic"
  /\ last.res.tag \in last.built

Owners(a) == {r \in {"inp", "w"} :
               LET h == IF r = "inp" THEN inp ELSE w
               IN h.kind \in OwningKinds /\ h.addr = a}

\* C7: each transpose returns a handle with the address, length and bytes
\* of the wrapper's inner value, allocates, frees and writes nothing, runs no
\* check, builds no matcher and has no error outcome; after the boxed cast
\* the allocation has exactly one owner, the result.
C7_CastFrame ==
  /\ last.op = "transpose" =>
       /\ w.kind = "&W<str>"
       /\ w.addr = last.arg.addr /\ w.len = last.arg.len
       /\ mem[w.addr].live /\ Deref(mem, w) = last.text
       /\ last.delta = {} /\ last.evald = 0 /\ last.built = {} /\ last.res = NoRes
  /\ last.op = "transpose_box" =>
       /\ w.kind = "Box<W<str>>"
       /\ w.addr = last.arg.addr /\ w.len = last.arg.len
       /\ mem[w.addr].live /\ Deref(mem, w) = last.text
       /\ last.delta = {} /\ last.evald = 0 /\ last.built = {} /\ last.res = NoRes
       /\ Owners(w.addr) = {"w"}
       /\ \A a \in Addrs : mem[a].live => a = w.addr

\* a non-empty boxed wrapper has been cast
C7_Witness ==
  /\ last.op = "transpose_box" /\ last.arg.kind = "W<Box<str>>"
  /\ last.text # <<>>

\* C8: for a text t passing all the checks, from_str(t) and new on an owned
\* copy of t return a wrapper whose content is t, byte for byte; as_str then
\* yields t and into_inner yields t: nothing is trimmed or normalised.
C8_RoundTrip ==
  /\ (last.op \in {"from_str", "new"} /\ Invalid(ty.checks) = {}
        /\ Failing(ty.checks, last.text) = {}) =>
       /\ last.res.kind \in {"Ok", "Self"}
       /\ last.text = src
       /\ mem[w.addr].live /\ Deref(mem, w) = src
       /\ w.len = len(src)
  /\ (last.op = "as_str" /\ IsWrapper(w)) =>
       /\ v.kind = "&str" /\ mem[v.addr].live /\ Deref(mem, v) = src
  /\ last.op = "into_inner" =>
       /\ inp.kind = InnerKind(last.arg.kind)
       /\ mem[inp.addr].live /\ Deref(mem, inp) = src

\* into_inner of a parsed wrapper of a checked type, on a text with a space
C8_Witness ==
  /\ Checked /\ Len(ty.checks) >= 1
  /\ last.op = "into_inner" /\ last.arg.kind = "W<String>"
  /\ \E i \in 1..Len(src) : src[i] = " "

\* C9: for a type without checks, new has no error outcome and wraps its
\* argument as it is, the empty text included, and from_str returns Ok with
\* the content of its input.
C9_Infallible ==
  ty.flavor = "none" =>
    /\ last.op = "new" =>
         /\ last.res.kind = "Self"
         /\ w = Wrap(last.arg)
         /\ Deref(mem, w) = last.text /\ last.text = src
         /\ last.delta = {} /\ last.evald = 0
    /\ last.op = "from_str" =>
         /\ last.res = Ok
         /\ w.kind = "W<String>"
         /\ Deref(mem, w) = last.text /\ last.text = src

\* new on the empty text, for a type without checks
C9_Witness ==
  /\ ty.flavor = "none" /\ last.op = "new"
  /\ last.text = <<>> /\ IsWrapper(w)

NsOps == {"from_str", "try_from", "visit_str", "decode"}

\* C10: for a declare_new_string type every construction path given a text
\* yields a value iff the pattern matches the text, the value then holds the
\* text as it is, and every rejection carries the message "Invalid <Name>"
\* (from_str and try_from return the unit error itself); every value of the
\* type that exists matches the pattern.  (A pattern that does not compile
\* makes every path panic: no value, no error.)
C10_NewString ==
  LET r == Regex_new(ty.checks[1].pattern)
  IN /\ (last.op \in NsOps /\ last.arg.kind = "&str") =>
          /\ last.res.kind = "Ok" <=> (r.ok /\ is_match(r.re, last.text))
          /\ last.res.kind = "Ok" => w.kind = "NS" /\ Deref(mem, w) = last.text
          /\ last.res.kind = "Err" =>
               /\ w = None
               /\ last.res.err.msg = <<"Invalid ", ty.name>>
               /\ last.op \in {"from_str", "try_from"} => last.res.err.type = "$err_name"
          /\ r.ok => last.res.kind \in {"Ok", "Err"}
          /\ ~r.ok => last.res.kind = "Panic"
     /\ w.kind = "NS" => r.ok /\ mem[w.addr].live /\ is_match(r.re, Deref(mem, w))

\* decode has rejected a text read from storage
C10_Witness ==
  /\ ty.flavor = "new_string" /\ last.op = "decode"
  /\ last.arg.kind = "&str" /\ last.res.kind = "Err"

\* C11: two values or views of one wrapper type compare equal iff the texts
\* they were built from are equal, whichever inputs, constructors, views and
\* casts produced them; in particular the view as_view gives of
\* new(String::from(t)) equals the reference new_ref(t) returns.  Both texts
\* pass all the checks, and the comparison changes nothing.
C11_EqualByText ==
  last.op = "eq" =>
    /\ Len(src) = 2
    /\ last.arg = v /\ last.parg = w /\ v.kind = w.kind
    /\ last.res.kind \in {"true", "false"}
    /\ last.res.kind = "true" <=> src[1].text = src[2].text
    /\ Deref(mem, v) = src[1].text /\ Deref(mem, w) = src[2].text
    /\ \A i \in 1..Len(src) :
         Checked => Failing(ty.checks, src[i].text) = {} /\ Invalid(ty.checks) = {}
    /\ last.delta = {} /\ last.built = {}
    /\ (/\ src[1].kind = "String" /\ src[1].ctor = "new" /\ v.kind = "&W<str>"
        /\ src[2].ctor = "new_ref"
        /\ src[1].text = src[2].text) => last.res.kind = "true"

\* author_username.as_view() == AUTHOR_USERNAME: the view of an owned wrapper
\* and the reference of new_ref on a literal of the same non-empty text, in
\* two buffers, compare equal
C11_Witness ==
  /\ last.op = "eq" /\ last.res.kind = "true"
  /\ Checked
  /\ src[1].kind = "String" /\ src[1].ctor = "new" /\ v.kind = "&W<str>"
  /\ src[2].kind = "&str" /\ src[2].ctor = "new_ref" /\ last.pop = "new_ref"
  /\ v.addr # w.addr
  /\ src[1].text # <<>>

\* the length of s in bytes, counted without str::len
Bytes(s) == Len(s) + Cardinality({i \in 1..Len(s) : s[i] = "U+00A0"})

\* the catalog row of a non-pattern check: the inputs it accepts
Row(ck, s) ==
  CASE ck.kind = "non_empty" -> Bytes(s) > 0
    [] ck.kind = "ascii_trimmed" -> s = <<>> \/ (s[1] # " " /\ s[Len(s)] # " ")
    [] ck.kind = "min_len" -> Bytes(s) >= ck.l
    [] ck.kind = "max_len" -> Bytes(s) <= ck.l
    [] ck.kind = "len" -> Bytes(s) = ck.l

\* C12: every non-pattern check a constructor evaluates accepts its input
\* exactly when the catalog row says so, lengths being byte lengths:
\* non_empty iff length > 0, ascii_trimmed iff neither end is ASCII
\* whitespace, min_len(l) iff length >= l, max_len(l) iff length <= l, len(l)
\* iff length = l.  (Check j was evaluated iff j <= evald, and it rejected
\* the input iff the result is Err(j).)
C12_CatalogRows ==
  (Checked /\ last.op \in CtorOps) =>
    \A j \in 1..last.evald :
      ty.checks[j].kind # "regex" =>
        (Row(ty.checks[j], last.text) <=> last.res # Err(j))

\* a text with fewer characters than the minimum, but enough bytes, is
\* accepted after min_len was evaluated
C12_Witness ==
  /\ Checked /\ last.op \in CtorOps
  /\ last.res = Ok
  /\ \E j \in 1..last.evald :
       /\ ty.checks[j].kind = "min_len"
       /\ Len(last.text) < ty.checks[j].l
       /\ Bytes(last.text) = ty.checks[j].l

RegexChecks == {j \in 1..Len(ty.checks) : ty.checks[j].kind = "regex"}

\* C13: no matcher is built when the type is defined.  A validation call
\* that returns Err(i) has evaluated checks 1..i and no later one; a call
\* leaves every PATTERN after the last check it evaluated as it was, and is
\* the first to build each unbuilt PATTERN among the checks it did evaluate.
\* A PATTERN only ever changes by such a call reaching its check while it is
\* unbuilt; once built it is never built again and never changes.
C13_ShortCircuit ==
  /\ \A j \in DOMAIN lazy : lazy[j] = Uninit /\ builds[j] = 0
  /\ [][ /\ (Checked /\ last'.op \in CtorOps) =>
              /\ last'.res.kind = "Err" => last'.evald = last'.res.tag
              /\ last'.res.kind = "Ok" => last'.evald = Len(ty.checks)
              /\ \A j \in RegexChecks :
                   /\ j > last'.evald => lazy'[j] = lazy[j] /\ builds'[j] = builds[j]
                   /\ (j <= last'.evald /\ lazy[j] = Uninit) =>
                        lazy'[j] # Uninit /\ builds'[j] = 1 /\ j \in last'.built
         /\ \A j \in DOMAIN lazy :
              /\ lazy[j] # Uninit => lazy'[j] = lazy[j] /\ builds'[j] = builds[j]
              /\ (lazy'[j] # lazy[j] \/ builds'[j] # builds[j]) =>
                   /\ last'.op \in CtorOps
                   /\ j \in RegexChecks /\ j <= last'.evald
              /\ builds[j] = 0 <=> lazy[j] = Uninit
       ]_vars

\* a call has failed at a check declared before a pattern check, and the
\* matcher is still unbuilt
C13_Witness ==
  /\ Checked /\ last.op \in CtorOps
  /\ last.res.kind = "Err"
  /\ \E j \in RegexChecks :
       /\ last.res.tag < j
       /\ Regex_new(ty.checks[j].pattern).ok
       /\ lazy[j] = Uninit /\ builds[j] = 0

====
